---------------------------- MODULE Spec2Model ----------------------------
(***************************************************************************)
(* Pixoo-REST: device configuration loader, device registry, startup       *)
(* connection prober, per-request device resolver and Time Gate command    *)
(* dispatcher.                                                             *)
(*                                                                         *)
(* Python strings are sequences of one-character strings, so that strip,   *)
(* lower, replace and the "-N" key suffix are computed as the code does.   *)
(* An optional string (str | None) is <<>> for None and <<s>> for s.       *)
(* A device is named by its index in registry.devices; index 0 is None.    *)
(***************************************************************************)
EXTENDS Integers, Sequences, FiniteSets, TLC

VARIABLES
    env,        \* process environment: PIXOO_DEVICES_JSON, PIXOO_DEVICE_TYPE, settings
    pc,         \* position of the process: boot, startup, serving, or a terminal outcome
    registry,   \* DEVICE_REGISTRY: devices, _by_key, _by_host, default
    cur,        \* lifespan: index of the device the for-loop is at
    attempt,    \* lifespan: connection_test_count of the probe loop
    probes,     \* per device: outcomes of the try_to_request calls made for it
    default_pixoo, \* lifespan: index of the device whose session is the default
    inflight,   \* outbound POSTs awaiting their response
    last,       \* the request handled most recently and what became of it
    served,     \* number of requests handled so far
    reply       \* the POST that ended most recently and the response its request got

vars == <<env, pc, registry, cur, attempt, probes, default_pixoo, inflight, last, served,
          reply>>

-----------------------------------------------------------------------------
(* Bounds of the model *)

MaxEntries == 3
MaxRegistry == 2
MaxRequests == 2

-----------------------------------------------------------------------------
(* Python strings *)

UpperChars == <<"A","B","C","D","E","F","G","H","I","J","K","L","M",
                "N","O","P","Q","R","S","T","U","V","W","X","Y","Z">>
LowerChars == <<"a","b","c","d","e","f","g","h","i","j","k","l","m",
                "n","o","p","q","r","s","t","u","v","w","x","y","z">>
DigitChars == <<"0","1","2","3","4","5","6","7","8","9">>

LowerChar(c) ==
    IF \E i \in 1..Len(UpperChars) : UpperChars[i] = c
    THEN LowerChars[CHOOSE i \in 1..Len(UpperChars) : UpperChars[i] = c]
    ELSE c

\* str.lower()
Lower(s) == [i \in 1..Len(s) |-> LowerChar(s[i])]

RECURSIVE LStrip(_)
LStrip(s) == IF s # <<>> /\ Head(s) = " " THEN LStrip(Tail(s)) ELSE s

RECURSIVE RStrip(_)
RStrip(s) ==
    IF s # <<>> /\ s[Len(s)] = " " THEN RStrip(SubSeq(s, 1, Len(s) - 1)) ELSE s

\* str.strip()
Strip(s) == RStrip(LStrip(s))

\* str.replace(old, new) for one-character old and new
Replace(s, old, new) == [i \in 1..Len(s) |-> IF s[i] = old THEN new ELSE s[i]]

RECURSIVE NatToStr(_)
NatToStr(n) ==
    IF n < 10 THEN <<DigitChars[n + 1]>>
    ELSE NatToStr(n \div 10) \o <<DigitChars[(n % 10) + 1]>>

\* str(n) of an int
IntToStr(n) == IF n < 0 THEN <<"-">> \o NatToStr(-n) ELSE NatToStr(n)

IsDigit(c) == \E i \in 1..Len(DigitChars) : DigitChars[i] = c
DigitVal(c) == (CHOOSE i \in 1..Len(DigitChars) : DigitChars[i] = c) - 1

RECURSIVE DigitsToNat(_)
DigitsToNat(s) ==
    IF s = <<>> THEN 0
    ELSE 10 * DigitsToNat(SubSeq(s, 1, Len(s) - 1)) + DigitVal(s[Len(s)])

\* int(s) of a str: surrounding blanks and one sign are accepted;
\* anything else is a ValueError (ok = FALSE)
ParseInt(s) ==
    LET t == Strip(s)
        neg == t # <<>> /\ Head(t) = "-"
        d == IF t # <<>> /\ Head(t) \in {"-", "+"} THEN Tail(t) ELSE t
    IN  IF d # <<>> /\ \A i \in 1..Len(d) : IsDigit(d[i])
        THEN [ok |-> TRUE, n |-> IF neg THEN -DigitsToNat(d) ELSE DigitsToNat(d)]
        ELSE [ok |-> FALSE, n |-> 0]

PIXOO == <<"p","i","x","o","o">>
TIMEGATE == <<"t","i","m","e","g","a","t","e">>
TIME_GATE == <<"t","i","m","e","_","g","a","t","e">>
AUTO == <<"a","u","t","o">>

-----------------------------------------------------------------------------
(* JSON values as json.loads returns them *)

JNull == [t |-> "null", s |-> <<>>, n |-> 0]
JStr(x) == [t |-> "str", s |-> x, n |-> 0]
JInt(k) == [t |-> "int", s |-> <<>>, n |-> k]
JBool(b) == [t |-> "bool", s |-> <<>>, n |-> IF b THEN 1 ELSE 0]
\* a float beyond the double range, such as 1e999, is read as float('inf')
JInf == [t |-> "inf", s |-> <<>>, n |-> 0]

\* bool(value)
Truthy(v) ==
    CASE v.t = "null" -> FALSE
      [] v.t = "str" -> v.s # <<>>
      [] v.t = "int" -> v.n # 0
      [] v.t = "bool" -> v.n = 1
      [] v.t = "inf" -> TRUE

\* str(value)
PyStr(v) ==
    CASE v.t = "null" -> <<"N","o","n","e">>
      [] v.t = "str" -> v.s
      [] v.t = "int" -> IntToStr(v.n)
      [] v.t = "bool" -> IF v.n = 1 THEN <<"T","r","u","e">> ELSE <<"F","a","l","s","e">>
      [] v.t = "inf" -> <<"i","n","f">>

\* value or other
PyOr(v, w) == IF Truthy(v) THEN v ELSE w

-----------------------------------------------------------------------------
(* pixoo_rest_devices.py *)

NoError == "none"

\* normalize_device_type: a truthy value that is not a str has no strip()
normalize_device_type(value) ==
    LET v == PyOr(value, JStr(PIXOO)) IN
    IF v.t # "str" THEN [err |-> "AttributeError", s |-> <<>>]
    ELSE LET normalized == Replace(Replace(Lower(Strip(v.s)), "-", "_"), " ", "_") IN
         [err |-> NoError,
          s |-> IF normalized \in {TIMEGATE, TIME_GATE} THEN TIME_GATE
                ELSE IF normalized = AUTO THEN AUTO
                ELSE PIXOO]

\* _coerce_int: TypeError and ValueError give the default; int(float('inf'))
\* raises OverflowError, which is not caught
coerce_int(value, default) ==
    CASE value.t = "null" -> [err |-> NoError, n |-> default]
      [] value.t = "int" -> [err |-> NoError, n |-> value.n]
      [] value.t = "bool" -> [err |-> NoError, n |-> value.n]
      [] value.t = "str" ->
            LET p == ParseInt(value.s) IN
            [err |-> NoError, n |-> IF p.ok THEN p.n ELSE default]
      [] value.t = "inf" -> [err |-> "OverflowError", n |-> 0]

TrueWords == { <<"1">>, <<"t","r","u","e">>, <<"y","e","s">>, <<"y">>, <<"o","n">> }

\* _coerce_bool
coerce_bool(value, default) ==
    CASE value.t = "null" -> default
      [] value.t = "bool" -> value.n = 1
      [] value.t = "str" -> Lower(Strip(value.s)) \in TrueWords
      [] OTHER -> Truthy(value)

RECURSIVE FirstFreeSuffix(_, _, _)
\* the while loop of _ensure_unique_key
FirstFreeSuffix(key, existing, suffix) ==
    IF (key \o <<"-">> \o IntToStr(suffix)) \in existing
    THEN FirstFreeSuffix(key, existing, suffix + 1)
    ELSE suffix

\* mutant: the suffix is not advanced past the ones in use
ensure_unique_key_FixedSuffix(key, existing) ==
    IF key \notin existing THEN key
    ELSE key \o <<"-">> \o IntToStr(2)

\* _ensure_unique_key: the returned key; the caller's set gains it
ensure_unique_key(key, existing) ==
    IF key \notin existing THEN key
    ELSE key \o <<"-">> \o IntToStr(FirstFreeSuffix(key, existing, 2))

\* DeviceContext
DeviceContext(key, host, device_type, screen_size, debug, connection_retries, name) ==
    [key |-> key, host |-> host, device_type |-> device_type,
     screen_size |-> screen_size, debug |-> debug,
     connection_retries |-> connection_retries, pixoo |-> <<>>, name |-> name]

\* the host, name and key that one loop iteration of _load_devices_from_list derives
RawHost(raw) == Strip(PyStr(PyOr(raw.host, JStr(<<>>))))
RawName(raw) == Strip(PyStr(PyOr(raw.name, JStr(<<>>))))
RawKey(raw) ==
    LET host == RawHost(raw)
        name == RawName(raw)
        key == Strip(IF Truthy(raw.key) THEN PyStr(raw.key)
                     ELSE IF name # <<>> THEN name ELSE host)
    IN  IF key = <<>> THEN host ELSE key

RECURSIVE LoadFrom(_, _, _, _, _)
\* the for loop of _load_devices_from_list, from element i on
LoadFrom(raw_devices, i, devices, used_keys, settings) ==
    IF i > Len(raw_devices) THEN [err |-> NoError, devices |-> devices]
    ELSE
    LET raw == raw_devices[i] IN
    IF ~raw.dict THEN LoadFrom(raw_devices, i + 1, devices, used_keys, settings)
    ELSE IF RawHost(raw) = <<>>
    THEN LoadFrom(raw_devices, i + 1, devices, used_keys, settings)
    ELSE
    LET host == RawHost(raw)
        name == RawName(raw)
        key == ensure_unique_key(RawKey(raw), used_keys)
        device_type == normalize_device_type(raw.device_type)
        screen_size == coerce_int(raw.screen_size, settings.pixoo_screen_size)
        debug == coerce_bool(raw.debug, settings.pixoo_debug)
        retries == coerce_int(raw.connection_retries,
                              settings.pixoo_test_connection_retries)
    IN  IF device_type.err # NoError THEN [err |-> device_type.err, devices |-> <<>>]
        ELSE IF screen_size.err # NoError THEN [err |-> screen_size.err, devices |-> <<>>]
        ELSE IF retries.err # NoError THEN [err |-> retries.err, devices |-> <<>>]
        ELSE LoadFrom(raw_devices, i + 1,
                      Append(devices,
                             DeviceContext(key, host, device_type.s, screen_size.n,
                                           debug, retries.n,
                                           IF name = <<>> THEN <<>> ELSE <<name>>)),
                      used_keys \cup {key}, settings)

load_devices_from_list(raw_devices, settings) ==
    LoadFrom(raw_devices, 1, <<>>, {}, settings)

\* the single device of the scalar settings
FallbackDevices(e) ==
    << DeviceContext(e.settings.pixoo_host, e.settings.pixoo_host,
                     normalize_device_type(e.device_type).s,
                     e.settings.pixoo_screen_size, e.settings.pixoo_debug,
                     e.settings.pixoo_test_connection_retries, <<>>) >>

\* load_devices_from_env.  e.json.kind tells what PIXOO_DEVICES_JSON holds:
\* "unset", "blank" (only white space), "invalid" (json.loads raises
\* JSONDecodeError), "nonarray" (JSON, not a list) or "array" (e.json.items)
load_devices_from_env(e) ==
    IF e.json.kind \in {"unset", "blank"}
    THEN [err |-> NoError, devices |-> FallbackDevices(e)]
    ELSE IF e.json.kind \in {"invalid", "nonarray"}
    THEN [err |-> "RuntimeError", devices |-> <<>>]
    ELSE LET r == load_devices_from_list(e.json.items, e.settings) IN
         IF r.err # NoError THEN r
         ELSE IF r.devices # <<>> THEN r
         ELSE [err |-> NoError, devices |-> FallbackDevices(e)]

Indices(devices) == 1..Len(devices)

LastIndex(S) == CHOOSE i \in S : \A j \in S : j <= i

\* DeviceRegistry.__init__: in a dict comprehension the last device with a
\* given (lower-cased) key or host is the one that stays
DeviceRegistry(devices) ==
    [devices |-> devices,
     by_key |-> [k \in {Lower(devices[i].key) : i \in Indices(devices)} |->
                    LastIndex({i \in Indices(devices) : Lower(devices[i].key) = k})],
     by_host |-> [h \in {devices[i].host : i \in Indices(devices)} |->
                    LastIndex({i \in Indices(devices) : devices[i].host = h})],
     default |-> IF devices # <<>> THEN 1 ELSE 0]

NoRegistry == DeviceRegistry(<<>>)

OptTruthy(o) == o # <<>> /\ o[1] # <<>>

\* dict.get(k): the index stored under k, or 0 (None)
DictGet(d, k) == IF k \in DOMAIN d THEN d[k] ELSE 0

\* mutant: an alias that matches nothing falls back to the host
select_HostFallback(reg, device_key, host) ==
    IF OptTruthy(device_key) /\ Lower(device_key[1]) \in DOMAIN reg.by_key
    THEN reg.by_key[Lower(device_key[1])]
    ELSE IF OptTruthy(host) THEN DictGet(reg.by_host, host[1])
    ELSE reg.default

\* DeviceRegistry.select
select(reg, device_key, host) ==
    IF OptTruthy(device_key) THEN DictGet(reg.by_key, Lower(device_key[1]))
    ELSE IF OptTruthy(host) THEN DictGet(reg.by_host, host[1])
    ELSE reg.default

\* DeviceRegistry.keys
keys(reg) == [i \in Indices(reg.devices) |-> reg.devices[i].key]


-----------------------------------------------------------------------------
(* pixoo_rest_entrypoint.py: lifespan *)

Max(a, b) == IF a >= b THEN a ELSE b

SetDevice(reg, i, d) == [reg EXCEPT !.devices[i] = d]

\* mutant: auto is left as it is
ResolveType_KeepAuto(d) ==
    [d EXCEPT !.device_type = normalize_device_type(JStr(d.device_type)).s]

\* lines 99-101: the type is normalized again and auto becomes pixoo
ResolveType(d) ==
    LET t == normalize_device_type(JStr(d.device_type)).s IN
    [d EXCEPT !.device_type = IF t = AUTO THEN PIXOO ELSE t]

\* lines 106-108: the screen size floor of a Time Gate device
FloorScreenSize(d) ==
    IF d.screen_size < 128 THEN [d EXCEPT !.screen_size = 128] ELSE d

\* Pixoo(device.host, device.screen_size, device.debug)
Pixoo(host, screen_size, debug) ==
    [host |-> host, screen_size |-> screen_size, debug |-> debug]

\* line 126
AttachSession(d) ==
    [d EXCEPT !.pixoo = <<Pixoo(d.host, d.screen_size, d.debug)>>]

\* range(device.connection_retries + 1) is empty
NoProbeRange(d) == d.connection_retries + 1 <= 0

\* lines 129-130
NextDefault(dp, i) == IF dp = 0 THEN i ELSE dp

-----------------------------------------------------------------------------
(* Requests *)

None == <<>>
Some(x) == <<x>>

TimegateOps == {"send-gif", "send-text", "play-gif", "set-brightness",
                "reset-gif-id", "command-list", "command"}
LcdOps == {"send-gif", "play-gif"}

NoRequest ==
    [surface |-> "none", op |-> "none", device |-> None, host |-> None,
     x_pixoo_device |-> None, x_pixoo_host |-> None,
     lcd_array |-> <<>>, pic_width |-> None]

NoLast ==
    [req |-> NoRequest, device_key |-> None, host_value |-> None,
     selected |-> 0, status |-> 0, post |-> None, session |-> None]

\* device or x_pixoo_device
OptOr(a, b) == IF OptTruthy(a) THEN a ELSE b

\* mutant: only the length is checked
validate_lcd_array_LengthOnly(lcd_array) ==
    IF Len(lcd_array) # 5 THEN 422 ELSE 0

\* _validate_lcd_array: 0 when the array passes, else the status raised
validate_lcd_array(lcd_array) ==
    IF Len(lcd_array) # 5 THEN 422
    ELSE IF \E i \in 1..Len(lcd_array) : lcd_array[i] \notin {0, 1} THEN 422
    ELSE 0

\* the alias and host that _select_timegate_device resolves with
TimegateSelector(r) ==
    [device_key |-> OptOr(r.device, r.x_pixoo_device),
     host_value |-> OptOr(r.host, r.x_pixoo_host)]

\* the alias and host that get_pixoo_for_request resolves with
PixooSelector(r) == [device_key |-> r.device, host_value |-> r.host]

\* mutant: the device type is not checked
select_timegate_device_AnyType(reg, r) ==
    LET selected == select(reg, OptOr(r.device, r.x_pixoo_device),
                           OptOr(r.host, r.x_pixoo_host))
    IN  [selected |-> selected, status |-> IF selected = 0 THEN 404 ELSE 0]

\* _select_timegate_device: the device selected and the status raised (0: none)
select_timegate_device(reg, r) ==
    LET s == TimegateSelector(r)
        selected == select(reg, s.device_key, s.host_value)
    IN  [selected |-> selected,
         status |-> IF selected = 0 THEN 404
                    ELSE IF reg.devices[selected].device_type # TIME_GATE THEN 400
                    ELSE 0]

\* get_pixoo_for_request: the device selected, the status raised (0: none) and
\* the session returned
get_pixoo_for_request(reg, r) ==
    LET s == PixooSelector(r)
        selected == select(reg, s.device_key, s.host_value)
    IN  IF selected = 0 THEN [selected |-> 0, status |-> 404, session |-> None]
        ELSE IF reg.devices[selected].device_type # PIXOO
        THEN [selected |-> selected, status |-> 400, session |-> None]
        ELSE IF reg.devices[selected].pixoo = None
        THEN [selected |-> selected, status |-> 503, session |-> None]
        ELSE [selected |-> selected, status |-> 0,
              session |-> reg.devices[selected].pixoo]

\* mutant: the default is PIXOO_SCREEN_SIZE, not the device's screen size
PicWidth_SettingsDefault(r, device) ==
    IF r.pic_width # None /\ r.pic_width[1] # 0 THEN r.pic_width[1]
    ELSE 64

\* request.pic_width or device.screen_size
PicWidth(r, device) ==
    IF r.pic_width # None /\ r.pic_width[1] # 0 THEN r.pic_width[1]
    ELSE device.screen_size

Command(op) ==
    CASE op = "send-gif" -> "Draw/SendHttpGif"
      [] op = "send-text" -> "Draw/SendHttpText"
      [] op = "play-gif" -> "Device/PlayGif"
      [] op = "set-brightness" -> "Channel/SetBrightness"
      [] op = "reset-gif-id" -> "Draw/ResetHttpGifId"
      [] op = "command-list" -> "Draw/CommandList"
      [] op = "command" -> "raw"

\* the body of a Time Gate handler up to its POST: the status raised (0: none)
\* and the POST made, as <<[host, Command, LcdArray, PicWidth]>>
timegate_handler(r, device) ==
    LET invalid == IF r.op \in LcdOps THEN validate_lcd_array(r.lcd_array) ELSE 0 IN
    IF invalid # 0 THEN [status |-> invalid, post |-> None]
    ELSE [status |-> 0,
          post |-> Some([host |-> device.host,
                         Command |-> Command(r.op),
                         LcdArray |-> IF r.op \in LcdOps THEN r.lcd_array ELSE <<>>,
                         PicWidth |-> IF r.op = "send-gif"
                                      THEN PicWidth(r, device) ELSE 0])]

\* mutant: every failure of the POST is reported as the upstream error
PostStatus_AlwaysUpstream(outcome) ==
    IF outcome = "ok" THEN 200 ELSE 400

\* _post_command / _post_raw: the status of the response for each way the
\* POST can end
PostStatus(outcome) ==
    CASE outcome = "ok" -> 200
      [] outcome = "HTTPError" -> 400
      [] outcome = "Exception" -> 500

PostOutcomes == {"ok", "HTTPError", "Exception"}

\* no POST has ended yet
NoReply == [id |-> 0, outcome |-> "none", status |-> 0]


-----------------------------------------------------------------------------
(* Inputs: configurations and requests *)

Str_a == <<"a">>
Str_A == <<"A">>
Str_b == <<"b">>
Str_z == <<"z">>
Str_a2 == <<"a","-","2">>
Str_h0 == <<"h","0">>
Str_h1 == <<"h","1">>
Str_h2 == <<"h","2">>
Str_h3 == <<"h","3">>
Blank == <<" ">>

\* one element of the JSON array: an object with these members (JNull: absent)
Raw(host, key, name, device_type, screen_size, debug, connection_retries) ==
    [dict |-> TRUE, host |-> host, key |-> key, name |-> name,
     device_type |-> device_type, screen_size |-> screen_size, debug |-> debug,
     connection_retries |-> connection_retries]

\* an element that is not an object
NonDict ==
    [dict |-> FALSE, host |-> JNull, key |-> JNull, name |-> JNull,
     device_type |-> JNull, screen_size |-> JNull, debug |-> JNull,
     connection_retries |-> JNull]

\* an object with host, key and name only
Keyed(host, key, name) == Raw(host, key, name, JNull, JNull, JNull, JNull)

\* pixoo_rest.core.config.settings, as the environment sets it
Settings ==
    [pixoo_host |-> Str_h0, pixoo_screen_size |-> 64, pixoo_debug |-> FALSE,
     pixoo_test_connection_retries |-> 1]

Env(json, device_type) ==
    [json |-> json, device_type |-> device_type, settings |-> Settings]

SeqsUpTo(S, n) == UNION {[1..k -> S] : k \in 0..n}

\* the values of PIXOO_DEVICES_JSON that are not an array
NonArrayJson == {[kind |-> k, items |-> <<>>] : k \in {"unset", "blank", "invalid", "nonarray"}}

ArrayJson(S, n) == {[kind |-> "array", items |-> items] : items \in SeqsUpTo(S, n)}

\* array elements for the loader: colliding keys, keys taken from name and
\* host, blank fields, elements that are dropped, members of the wrong type
LoadEntries ==
    { Keyed(JStr(Str_h1), JStr(Str_a), JNull),
      Keyed(JStr(Str_h2), JStr(Str_a), JNull),
      Keyed(JStr(Str_h1), JStr(Str_a2), JNull),
      Keyed(JStr(Str_h2), JStr(Str_A), JNull),
      Keyed(JStr(Str_h1), JNull, JStr(Str_a)),
      Keyed(JStr(Str_a), JNull, JNull),
      Keyed(JStr(<<" ","h","1"," ">>), JStr(<<" ","a"," ">>), JStr(Blank)),
      Keyed(JStr(Blank), JStr(Str_a), JNull),
      NonDict,
      Raw(JStr(Str_h1), JStr(Blank), JNull, JStr(<<"T","i","m","e"," ","G","a","t","e">>),
          JStr(<<"3","2">>), JStr(<<"Y","e","s">>), JInt(-1)),
      Raw(JStr(Str_h2), JNull, JNull, JNull, JInf, JNull, JNull),
      Raw(JStr(Str_h2), JNull, JNull, JInt(1), JNull, JNull, JNull) }

\* PIXOO_DEVICE_TYPE is read only when the single fallback device is built
FallbackTypes == {JNull, JStr(<<"t","i","m","e"," ","g","a","t","e">>)}

LoadEnvs ==
    {Env(j, t) : j \in NonArrayJson \cup ArrayJson(LoadEntries, MaxEntries),
                 t \in FallbackTypes}

\* array elements for startup and serving: both device types, auto, screen
\* sizes below and above the Time Gate floor, retry counts
DeviceEntries ==
    { Keyed(JStr(Str_h1), JStr(Str_a), JNull),
      Raw(JStr(Str_h2), JStr(Str_b), JNull, JStr(<<"T","i","m","e","-","G","a","t","e">>),
          JInt(32), JNull, JNull),
      Raw(JStr(Str_h2), JStr(Str_b), JNull, JStr(TIMEGATE), JInt(256), JNull, JNull),
      Raw(JStr(Str_h1), JStr(Str_a), JNull, JStr(<<"A","U","T","O">>), JNull, JNull, JInt(0)),
      Raw(JStr(Str_h1), JStr(Str_a), JNull, JNull, JNull, JNull, JInt(-1)) }

MainEnvs ==
    {Env(j, JNull) : j \in ArrayJson(DeviceEntries, MaxRegistry)}
    \cup {Env(j, t) : j \in NonArrayJson \cup ArrayJson(DeviceEntries, 0),
                      t \in FallbackTypes}

\* devices of a registry built directly with DeviceRegistry(devices)
RegistryDevices ==
    {DeviceContext(k, h, PIXOO, 64, FALSE, 0, None) :
        k \in {Str_a, Str_A, Str_b}, h \in {Str_h1, Str_h2}}

SelectKeys == {None, Some(<<>>), Some(Str_a), Some(Str_A), Some(Str_b), Some(Str_z)}
SelectHosts == {None, Some(<<>>), Some(Str_h1), Some(Str_h2), Some(Str_h3)}

\* the device selection a request carries: query parameters and headers
Selectors ==
    { [device |-> None, host |-> None, x_pixoo_device |-> None, x_pixoo_host |-> None],
      [device |-> Some(Str_a), host |-> None, x_pixoo_device |-> None, x_pixoo_host |-> None],
      [device |-> None, host |-> None, x_pixoo_device |-> Some(Str_b), x_pixoo_host |-> None],
      [device |-> None, host |-> None, x_pixoo_device |-> None, x_pixoo_host |-> Some(Str_h1)],
      [device |-> Some(Str_a), host |-> Some(Str_h2), x_pixoo_device |-> Some(Str_b),
       x_pixoo_host |-> Some(Str_h1)] }

\* the bodies of the Time Gate requests
Bodies ==
    {[op |-> "send-gif", lcd_array |-> l, pic_width |-> None] :
        l \in {<<1,1,1,1,1>>, <<1,1,1>>, <<1,1,1,1,2>>}}
    \cup {[op |-> "send-gif", lcd_array |-> <<0,1,0,0,0>>, pic_width |-> Some(64)]}
    \cup {[op |-> "play-gif", lcd_array |-> l, pic_width |-> None] :
            l \in {<<1,1,1,1,1>>, <<1,-1,1,1,1,1>>}}
    \cup {[op |-> o, lcd_array |-> <<>>, pic_width |-> None] : o \in TimegateOps \ LcdOps}

Request(surface, sel, body) ==
    [surface |-> surface, op |-> body.op, device |-> sel.device, host |-> sel.host,
     x_pixoo_device |-> sel.x_pixoo_device, x_pixoo_host |-> sel.x_pixoo_host,
     lcd_array |-> body.lcd_array, pic_width |-> body.pic_width]

\* the selections that name no device or name one by the header alone
PlainSelectors ==
    {sel \in Selectors : sel.device = None /\ sel.host = None /\ sel.x_pixoo_host = None}

\* the Time Gate requests: the lcd_array endpoints with every selection, the
\* endpoints whose body plays no part in the handler with the plain selections
TimegateRequests ==
    {Request("timegate", sel, body) :
        sel \in Selectors, body \in {b \in Bodies : b.op \in LcdOps}}
    \cup {Request("timegate", sel, body) :
            sel \in PlainSelectors, body \in {b \in Bodies : b.op \notin LcdOps}}

\* a request to an endpoint of the image/drawing surface (Depends(get_pixoo))
PixooBody == [op |-> "pixoo", lcd_array |-> <<>>, pic_width |-> None]

-----------------------------------------------------------------------------
(* The state machine *)

Boot(envs) ==
    /\ env \in envs
    /\ pc = "boot"
    /\ registry = NoRegistry
    /\ cur = 0
    /\ attempt = 0
    /\ probes = <<>>
    /\ default_pixoo = 0
    /\ inflight = {}
    /\ last = NoLast
    /\ served = 0
    /\ reply = NoReply

Init == Boot(MainEnvs)

InitLoad == Boot(LoadEnvs)

InitRegistry ==
    /\ env = Env([kind |-> "unset", items |-> <<>>], JNull)
    /\ pc = "registry"
    /\ registry \in {DeviceRegistry(ds) : ds \in SeqsUpTo(RegistryDevices, MaxRegistry)}
    /\ cur = 0
    /\ attempt = 0
    /\ probes = <<>>
    /\ default_pixoo = 0
    /\ inflight = {}
    /\ last = NoLast
    /\ served = 0
    /\ reply = NoReply

\* lifespan, lines 89-96: load_devices_from_env, initialize_device_registry
LoadDevices ==
    /\ pc = "boot"
    /\ LET r == load_devices_from_env(env) IN
       IF r.err = "RuntimeError"
       THEN /\ pc' = "config_error"
            /\ UNCHANGED <<registry, cur, probes>>
       ELSE IF r.err # NoError
       THEN /\ pc' = "crashed"
            /\ UNCHANGED <<registry, cur, probes>>
       ELSE /\ registry' = DeviceRegistry(r.devices)
            /\ pc' = IF r.devices = <<>> THEN "exited" ELSE "startup"
            /\ cur' = 1
            /\ probes' = [i \in Indices(r.devices) |-> <<>>]
    /\ UNCHANGED <<env, attempt, default_pixoo, inflight, last, served, reply>>

\* lifespan, lines 98-115: the top of the for loop, up to the first probe
BeginDevice ==
    /\ pc = "startup"
    /\ cur \in Indices(registry.devices)
    /\ LET d == ResolveType(registry.devices[cur]) IN
       IF d.device_type = TIME_GATE
       THEN /\ registry' = SetDevice(registry, cur, FloorScreenSize(d))
            /\ cur' = cur + 1
            /\ UNCHANGED <<pc, attempt, default_pixoo>>
       ELSE IF NoProbeRange(d)
       THEN /\ registry' = SetDevice(registry, cur, AttachSession(d))
            /\ default_pixoo' = NextDefault(default_pixoo, cur)
            /\ cur' = cur + 1
            /\ UNCHANGED <<pc, attempt>>
       ELSE /\ registry' = SetDevice(registry, cur, d)
            /\ pc' = "probing"
            /\ attempt' = 0
            /\ UNCHANGED <<cur, default_pixoo>>
    /\ UNCHANGED <<env, probes, inflight, last, served, reply>>

\* lifespan, lines 116-130: one utils.try_to_request and what follows it
Probe ==
    /\ pc = "probing"
    /\ \E ok \in BOOLEAN :
        /\ probes' = [probes EXCEPT ![cur] = Append(@, ok)]
        /\ IF ok
           THEN /\ registry' = SetDevice(registry, cur, AttachSession(registry.devices[cur]))
                /\ default_pixoo' = NextDefault(default_pixoo, cur)
                /\ pc' = "startup"
                /\ cur' = cur + 1
                /\ UNCHANGED attempt
           ELSE IF attempt = registry.devices[cur].connection_retries
           THEN /\ pc' = "exited"
                /\ UNCHANGED <<registry, default_pixoo, cur, attempt>>
           ELSE /\ attempt' = attempt + 1
                /\ UNCHANGED <<registry, default_pixoo, cur, pc>>
    /\ UNCHANGED <<env, inflight, last, served, reply>>

\* lifespan, lines 132-135: the loop is over, the application serves
FinishStartup ==
    /\ pc = "startup"
    /\ cur > Len(registry.devices)
    /\ pc' = "serving"
    /\ UNCHANGED <<env, registry, cur, attempt, probes, default_pixoo, inflight, last, served,
                   reply>>

\* a request to a /timegate endpoint, up to the await of its POST
TimegateRequest ==
    /\ pc = "serving"
    /\ served < MaxRequests
    /\ \E r \in TimegateRequests :
        LET s == select_timegate_device(registry, r)
            h == IF s.status # 0 THEN [status |-> s.status, post |-> None]
                 ELSE timegate_handler(r, registry.devices[s.selected])
        IN  /\ last' = [req |-> r,
                        device_key |-> TimegateSelector(r).device_key,
                        host_value |-> TimegateSelector(r).host_value,
                        selected |-> s.selected, status |-> h.status,
                        post |-> h.post, session |-> None]
            /\ inflight' = IF h.post = None THEN inflight
                           ELSE inflight \cup {[id |-> served + 1, host |-> h.post[1].host]}
    /\ served' = served + 1
    /\ UNCHANGED <<env, pc, registry, cur, attempt, probes, default_pixoo, reply>>

\* _post_command / _post_raw after the await: the POST has ended
PostReturn ==
    /\ pc = "serving"
    /\ \E p \in inflight, outcome \in PostOutcomes :
        /\ inflight' = inflight \ {p}
        /\ last' = IF last.req.surface = "timegate" /\ last.post # None /\ p.id = served
                   THEN [last EXCEPT !.status = PostStatus(outcome)]
                   ELSE last
        /\ reply' = [id |-> p.id, outcome |-> outcome, status |-> PostStatus(outcome)]
    /\ UNCHANGED <<env, pc, registry, cur, attempt, probes, default_pixoo, served>>

\* a request to an endpoint that depends on get_pixoo_for_request
PixooRequest ==
    /\ pc = "serving"
    /\ served < MaxRequests
    /\ \E sel \in Selectors :
        LET r == Request("pixoo", sel, PixooBody)
            g == get_pixoo_for_request(registry, r)
        IN  last' = [req |-> r,
                     device_key |-> PixooSelector(r).device_key,
                     host_value |-> PixooSelector(r).host_value,
                     selected |-> g.selected, status |-> g.status,
                     post |-> None, session |-> g.session]
    /\ served' = served + 1
    /\ UNCHANGED <<env, pc, registry, cur, attempt, probes, default_pixoo, inflight, reply>>

\* a call of DeviceRegistry.select
SelectCall ==
    /\ pc = "registry"
    /\ \E k \in SelectKeys, h \in SelectHosts :
        last' = [NoLast EXCEPT !.req.surface = "select", !.device_key = k,
                               !.host_value = h,
                               !.selected = select(registry, k, h)]
    /\ UNCHANGED <<env, pc, registry, cur, attempt, probes, default_pixoo, inflight, served,
                   reply>>

Next ==
    \/ LoadDevices
    \/ BeginDevice
    \/ Probe
    \/ FinishStartup
    \/ TimegateRequest
    \/ PostReturn
    \/ PixooRequest

Spec == Init /\ [][Next]_vars

NextLoad == LoadDevices

SpecLoad == InitLoad /\ [][NextLoad]_vars

NextRegistry == SelectCall

SpecRegistry == InitRegistry /\ [][NextRegistry]_vars


-----------------------------------------------------------------------------
(* Vocabulary of the properties *)

Devices == registry.devices
Items == env.json.items

\* two characters that are the same letter, in either case
SameLetter(c, d) ==
    c = d \/ \E i \in 1..Len(UpperChars) : {c, d} = {UpperChars[i], LowerChars[i]}

EqualIgnoringCase(a, b) ==
    Len(a) = Len(b) /\ \A i \in 1..Len(a) : SameLetter(a[i], b[i])

Supplied(o) == o # None /\ o[1] # <<>>

\* the POST of the latest request has been made
Dispatched == last.req.surface = "timegate" /\ last.post # None

\* no POST belongs to the latest request
NoPostForLast == last.post = None /\ \A p \in inflight : p.id # served

Suffixed(key, n) == key \o <<"-">> \o IntToStr(n)

-----------------------------------------------------------------------------
(* Properties *)

\* C1: a Time Gate operation that resolves to a device of type pixoo fails
\* with 400 and makes no POST, so every outbound POST goes to the host of a
\* registry device of type time_gate; a pixoo-only operation that resolves to
\* a time_gate device fails with 400 and is handed no session.
C1_TypeMismatchNeverForwarded ==
    /\ \A p \in inflight :
          \E i \in Indices(Devices) :
              Devices[i].host = p.host /\ Devices[i].device_type = TIME_GATE
    /\ Dispatched =>
          /\ last.selected # 0
          /\ Devices[last.selected].device_type = TIME_GATE
          /\ last.post[1].host = Devices[last.selected].host
    /\ (/\ last.req.surface = "timegate"
        /\ last.selected # 0
        /\ Devices[last.selected].device_type = PIXOO)
          => last.status = 400 /\ NoPostForLast
    /\ (/\ last.req.surface = "pixoo"
        /\ last.selected # 0
        /\ Devices[last.selected].device_type = TIME_GATE)
          => last.status = 400 /\ last.session = None

\* C1 witness: a Time Gate request was refused for a pixoo device while the
\* POST of an earlier request to a time_gate device is in flight
C1_Witness ==
    /\ last.req.surface = "timegate"
    /\ last.selected # 0
    /\ Devices[last.selected].device_type = PIXOO
    /\ last.status = 400
    /\ inflight # {}

\* C2: select(key, host) is: with a non-empty key, a device whose key equals
\* it ignoring case, or no match when there is none, whatever the host; else
\* with a non-empty host, the last-registered device with exactly that host,
\* or no match; else the first-registered device, or none in an empty registry.
C2_SelectReference ==
    last.req.surface = "select" =>
        LET key == last.device_key
            host == last.host_value
            byKey == {i \in Indices(Devices) : EqualIgnoringCase(Devices[i].key, key[1])}
            byHost == {i \in Indices(Devices) : Devices[i].host = host[1]}
        IN  IF Supplied(key)
            THEN IF byKey = {} THEN last.selected = 0 ELSE last.selected \in byKey
            ELSE IF Supplied(host)
            THEN IF byHost = {} THEN last.selected = 0
                 ELSE /\ last.selected \in byHost
                      /\ \A j \in byHost : j <= last.selected
            ELSE IF Devices = <<>> THEN last.selected = 0
            ELSE last.selected = 1

\* C2 witness: key and host were both supplied, the host is that of another
\* device, and the key's device was returned
C2_Witness ==
    /\ last.req.surface = "select"
    /\ Supplied(last.device_key)
    /\ Supplied(last.host_value)
    /\ last.selected # 0
    /\ Devices[last.selected].host # last.host_value[1]
    /\ \E i \in Indices(Devices) : Devices[i].host = last.host_value[1]

\* the case C3 is about: an array of N >= 1 objects, each with a host that is
\* not empty once trimmed, whose other members the loader reads without raising
C3_Case ==
    /\ pc # "boot"
    /\ env.json.kind = "array"
    /\ Items # <<>>
    /\ \A i \in 1..Len(Items) :
          /\ Items[i].dict
          /\ RawHost(Items[i]) # <<>>
          /\ Items[i].device_type.t \in {"null", "str"}
          /\ Items[i].screen_size.t # "inf"
          /\ Items[i].connection_retries.t # "inf"

\* N devices, in input order, with pairwise distinct keys
C3_Devices ==
    /\ pc = "startup"
    /\ Len(Devices) = Len(Items)
    /\ \A i \in 1..Len(Items) : Devices[i].host = RawHost(Items[i])
    /\ \A i, j \in 1..Len(Items) : i # j => Devices[i].key # Devices[j].key

\* device i has key with the smallest suffix -2, -3, ... no earlier device has
C3_SmallestSuffix(i, key) ==
    \E n \in 2..(Len(Items) + 1) :
        /\ Devices[i].key = Suffixed(key, n)
        /\ \A j \in 1..(i - 1) : Devices[j].key # Suffixed(key, n)
        /\ \A m \in 2..(n - 1) : \E j \in 1..(i - 1) : Devices[j].key = Suffixed(key, m)

C4_KeysUniqueIgnoringCase ==
    pc = "startup" =>
        /\ \A i, j \in Indices(Devices) :
              i # j => ~EqualIgnoringCase(Devices[i].key, Devices[j].key)
        /\ \A i \in Indices(Devices) : \A h \in SelectHosts :
              select(registry, Some(Devices[i].key), h) = i

\* a device whose resolved type is pixoo
IsPixoo(d) == ResolveType(d).device_type = PIXOO

\* C5: devices are processed in registry order; a pixoo device is probed at
\* most connectionRetries + 1 times and not after a successful probe; when all
\* connectionRetries + 1 probes of a device have failed the process exits with
\* no session for it, before any later device is probed or given a session and
\* before a request is served; time_gate devices are never probed.
C5_BoundedSequentialProbing ==
    pc \in {"startup", "probing", "serving", "exited"} =>
        \A i \in Indices(Devices) :
            LET d == Devices[i]
                n == Len(probes[i])
                allFailed == /\ n = d.connection_retries + 1
                             /\ \A k \in 1..n : ~probes[i][k]
            IN  /\ n <= d.connection_retries + 1
                /\ \A k \in 1..(n - 1) : ~probes[i][k]
                /\ ~IsPixoo(d) => n = 0
                /\ i > cur => n = 0 /\ d.pixoo = None
                /\ (IsPixoo(d) /\ allFailed) =>
                      /\ d.pixoo = None
                      /\ pc # "serving"
                      /\ cur <= i

\* C6: while requests are served no device has type auto, every pixoo device
\* has a session and no time_gate device has one; a pixoo-only operation is
\* handed a session or, when its pixoo device has none, fails with 503.
C6_ServingDevicesReady ==
    /\ pc = "serving" =>
          \A i \in Indices(Devices) :
              /\ Devices[i].device_type \in {PIXOO, TIME_GATE}
              /\ Devices[i].device_type = PIXOO => Devices[i].pixoo # None
              /\ Devices[i].device_type = TIME_GATE => Devices[i].pixoo = None
    /\ last.req.surface = "pixoo" =>
          /\ pc = "serving"
          /\ last.status = 0 =>
                /\ last.session # None
                /\ last.session = Devices[last.selected].pixoo
          /\ (/\ last.selected # 0
              /\ Devices[last.selected].device_type = PIXOO
              /\ Devices[last.selected].pixoo = None) => last.status = 503

\* C6 witness: serving with a device configured as auto and a time_gate
\* device, and a pixoo-only operation was handed a session
C6_Witness ==
    /\ pc = "serving"
    /\ last.req.surface = "pixoo"
    /\ last.status = 0
    /\ \E i \in 1..Len(Items) : Lower(Items[i].device_type.s) = AUTO
    /\ \E i \in Indices(Devices) : Devices[i].device_type = TIME_GATE

\* the lcd_array of a send-gif or play-gif request is not 5 values of 0/1
InvalidLcd(r) ==
    /\ r.surface = "timegate"
    /\ r.op \in LcdOps
    /\ \/ Len(r.lcd_array) # 5
       \/ \E i \in 1..Len(r.lcd_array) : r.lcd_array[i] \notin {0, 1}

\* C7 as stated: a send-gif or play-gif request with an invalid lcd_array ends
\* with a validation failure and no outbound call.
C7_EndsWithValidationFailure ==
    InvalidLcd(last.req) => last.status = 422 /\ NoPostForLast

\* C7 amended: such a request makes no outbound call and ends with the
\* validation failure (422) when its device resolves to a time_gate device,
\* and otherwise with the resolution failure (404 not found, 400 type mismatch).
C7_FailsBeforeAnyPost ==
    InvalidLcd(last.req) =>
        /\ NoPostForLast
        /\ last.status = IF last.selected = 0 THEN 404
                         ELSE IF Devices[last.selected].device_type # TIME_GATE THEN 400
                         ELSE 422

\* C7 witness: an invalid lcd_array for a time_gate device was refused with 422
C7_Witness ==
    /\ InvalidLcd(last.req)
    /\ last.status = 422
    /\ Devices[last.selected].device_type = TIME_GATE

\* C8: on both surfaces the alias resolved with is the device query parameter
\* when present and otherwise the X-Pixoo-Device header, the host is the host
\* query parameter when present and otherwise the X-Pixoo-Host header, and the
\* device selected is the one they name.
C8_QueryElseHeader ==
    last.req.surface \in {"timegate", "pixoo"} =>
        LET alias == IF Supplied(last.req.device) THEN last.req.device
                     ELSE last.req.x_pixoo_device
            host == IF Supplied(last.req.host) THEN last.req.host
                    ELSE last.req.x_pixoo_host
        IN  /\ last.device_key = alias
            /\ last.host_value = host
            /\ last.selected = select(registry, alias, host)

\* the screen size the configuration gives device i
ConfiguredScreenSize(i) ==
    IF env.json.kind = "array" /\ Items # <<>> /\ Items[i].screen_size.t = "int"
    THEN Items[i].screen_size.n
    ELSE env.settings.pixoo_screen_size

ValidItems == SelectSeq(Items, LAMBDA raw : raw.dict /\ RawHost(raw) # <<>>)

\* C9: loading aborts with a configuration error exactly when the value is
\* non-empty after trimming and is not valid JSON or not an array; otherwise
\* it returns a non-empty device list, the valid entries in input order when
\* there is one, else the single device of the scalar defaults; the registry
\* of a successful load is not empty and has a default device.
C9_TwoOutcomes ==
    pc # "boot" =>
        /\ pc \in {"config_error", "startup"}
        /\ pc = "config_error" <=> env.json.kind \in {"invalid", "nonarray"}
        /\ pc = "startup" =>
              /\ Devices # <<>>
              /\ registry.default = 1
              /\ IF ValidItems # <<>>
                 THEN /\ Len(Devices) = Len(ValidItems)
                      /\ \A i \in 1..Len(Devices) :
                            Devices[i].host = RawHost(ValidItems[i])
                 ELSE /\ Len(Devices) = 1
                      /\ Devices[1].host = env.settings.pixoo_host
                      /\ Devices[1].key = env.settings.pixoo_host

\* C11: whatever connection_retries the loader produced, a device holds a
\* session only when its host was probed at least once and the probe that
\* preceded the attachment, the last one made, succeeded.
C11_SessionOnlyAfterSuccessfulProbe ==
    pc \in {"startup", "probing", "serving", "exited"} =>
        \A i \in Indices(Devices) :
            Devices[i].pixoo # None =>
                /\ probes[i] # <<>>
                /\ probes[i][Len(probes[i])]

\* the step handles a Time Gate request
C12_RequestStep == served' = served + 1 /\ last'.req.surface = "timegate"

\* the POSTs the step sends
C12_Sent == inflight' \ inflight

\* what C12 says of one step of the serving process
C12_Step ==
    pc = "serving" =>
        /\ pc' = "serving"
        /\ registry' = registry
        /\ default_pixoo' = default_pixoo
        /\ \A p, q \in inflight' : p.id = q.id => p = q
        /\ C12_RequestStep =>
              /\ inflight \subseteq inflight'
              /\ Cardinality(C12_Sent) <= 1
              /\ \A p \in C12_Sent :
                    /\ p.id = served'
                    /\ last'.selected # 0
                    /\ p.host = registry.devices[last'.selected].host
              /\ (\/ last'.selected = 0
                  \/ last'.status \in {404, 400, 422}
                  \/ InvalidLcd(last'.req)) => C12_Sent = {}
              /\ reply' = reply
        /\ served' = served =>
              \E p \in inflight :
                  /\ inflight' = inflight \ {p}
                  /\ reply'.id = p.id
                  /\ reply'.status = CASE reply'.outcome = "ok" -> 200
                                       [] reply'.outcome = "HTTPError" -> 400
                                       [] reply'.outcome = "Exception" -> 500
                  /\ last'.req = last.req
                  /\ (p.id = served /\ last.req.surface = "timegate") =>
                        last'.status = reply'.status

\* C12: a Time Gate request sends at most one POST, to the host of the device
\* it resolved, and none when resolution or validation fails; when the POST
\* ends in an HTTP error the request is answered 400, in any other exception
\* 500, and nothing is sent again; the process stays in service and the
\* registry and its devices are unchanged, however requests interleave.
C12_OnePostNoRetry == [][C12_Step]_vars

\* the POST of the second request has failed with a non-HTTP exception and the
\* request was answered 500 while the POST of the first is still in flight
C12_Witness ==
    /\ pc = "serving"
    /\ served = 2
    /\ last.req.surface = "timegate"
    /\ reply = [id |-> 2, outcome |-> "Exception", status |-> 500]
    /\ last.status = 500
    /\ \E p \in inflight : p.id = 1

=============================================================================
